---- MODULE Spec2Model ----
(***************************************************************************)
(* Model of empolis-visibility: the OAuth2 token cache of                  *)
(* src/empolis_admin.js (getToken, called by any number of overlapping     *)
(* callers) and the metadata update batch of src/empolis_ops.js,           *)
(* src/index.js and the search module (fileSearch, indexSearch).           *)
(* Times are milliseconds, as Date.now() gives them.                       *)
(***************************************************************************)
EXTENDS Integers, Sequences, FiniteSets, TLC

\* ------------------------------------------------------------------ bounds
\* Date.now() when the program starts.
StartTime == 100000
\* How many times the clock advances in one behaviour.
MaxTicks == 1
\* How many getToken calls the overlapping clients make in one behaviour.
MaxCalls == 2
\* How many update operations the user selects in one program run.
MaxRuns == 2
\* How many indexSearch calls a direct caller makes in one behaviour.
MaxSearches == 2
\* How many checkApiStatus calls a direct caller makes in one behaviour.
MaxChecks == 2
\* How many entries the directory handed to getHtmlFiles has at most.
MaxFiles == 3

\* ------------------------------------------------------- program constants
\* null, the initial value of the four tokenCache fields (falsy in JS).
Null == 0
\* Seconds subtracted from the server-reported lifetime.
SafetyMargin == 60
\* Lifetime given to every cached refresh token: 24 hours, in ms.
RefreshLifetime == 24 * 60 * 60 * 1000
\* The status code processFile takes as success.
Accepted == 202
\* The four environment variables getToken requires.
EnvVars == {"API_USERNAME", "API_PASSWORD", "CLIENT_ID", "CLIENT_SECRET"}

\* -------------------------------------------------------------- environment
\* expires_in values (seconds) the token endpoint may report.
ExpiresInValues == {60, 90, 120}
\* Amounts of time (ms) that may pass between two steps.
ClockSteps == {30000, RefreshLifetime}
\* Overlapping callers of the exported getToken, and the batch's own calls.
Clients == {"c1", "c2"}
BatchCaller == "batch"
Callers == Clients \cup {BatchCaller}

VARIABLES
  env,          \* the environment variables that are set (process.env)
  lifetimes,    \* the expires_in values this token endpoint reports
  now,          \* the clock, Date.now()
  ticks,        \* how often the clock advanced
  tokenCache,   \* the module-level tokenCache of empolis_admin.js
  pc,           \* where each caller's getToken call stands
  currentTime,  \* each call's local currentTime
  refreshSent,  \* the refresh token each call handed to refreshAccessToken
  tokenResult,  \* what each caller's last call returned (Null: nothing)
  callCount,    \* how many getToken calls each caller has started
  tokenLog,     \* every request sent to the token endpoint, in order
  issued,       \* every successful token response, in order; its index is
                \* the identity of the access and refresh token it carries
  discarded,    \* the tokens dropped when a refresh grant failed
  driver,       \* which updateCloudMetadata runs the batch
  index,        \* the index file: a sequence of file records
  fileList,     \* the filenames handed to updateCloudMetadata
  store,        \* the remote documents: store path -> metadata
  run,          \* how many batches have been started
  bpc,          \* where the batch stands
  cur,          \* position of the batch loop in fileList
  dataObject,   \* processFile's record parameter
  curPath,      \* DownloadLink of the first search hit
  fileMetadata, \* what fileSearch returned to processFile
  newMetadata,  \* the metadata object handed to editFileMetadata
  editMetadataResponse, \* what editFileMetadata returned to processFile
  outcomeLog,   \* what processFile logged for each record it finished,
                \* this run
  previousLog,  \* the same of the run before
  apiLog,       \* the search, metadata and edit requests sent for the
                \* record processFile is working on, in order
  crashCause,   \* why an error escaped to main ("" while none has)
  spc,          \* where a direct call of a search function stands
  queryObject,  \* the query object of that call
  searchResults, \* what that call returned
  yamlOperation, \* OPERATION as config.yaml has it ("": not set)
  hpc,          \* where a checkApiStatus call stands
  results,      \* what each apiOperational call of it returned
  healthError,  \* the services named by the error checkApiStatus threw
  batchResult,  \* what updateCloudMetadata returned to main
  directory,    \* the filenames fs.readdir gives for the directory
  gpc,          \* where a getHtmlFiles call stands
  htmlFiles,    \* what that call returned
  operation,    \* config.OPERATION, the operation the user selected
  configOK,     \* config.OK, the answer to the directory confirmation
  indexWritable, \* whether the index file can be truncated and written
  icur          \* position of createFileIndex's loop (0: not running)

tokenVars == <<env, lifetimes, now, ticks, tokenCache, pc, currentTime, refreshSent,
               tokenResult, callCount, tokenLog, issued, discarded>>

batchVars == <<driver, index, fileList, store, run, bpc, cur, dataObject,
               curPath, fileMetadata, newMetadata, editMetadataResponse,
               outcomeLog, previousLog, apiLog, crashCause,
               spc, queryObject, searchResults,
               yamlOperation, hpc, results, healthError, batchResult,
               directory, gpc, htmlFiles,
               operation, configOK, indexWritable, icur>>

searchVars == <<spc, queryObject, searchResults>>

healthVars == <<yamlOperation, hpc, results, healthError>>

filesVars == <<directory, gpc, htmlFiles,
               operation, configOK, indexWritable, icur>>

mainVars == <<operation, configOK, indexWritable, icur>>

programVars == <<yamlOperation, hpc, results, healthError, batchResult,
                 directory, gpc, htmlFiles,
                 operation, configOK, indexWritable, icur>>

vars == <<env, lifetimes, now, ticks, tokenCache, pc, currentTime, refreshSent,
          tokenResult, callCount, tokenLog, issued, discarded,
          driver, index, fileList, store, run, bpc, cur, dataObject,
          curPath, fileMetadata, newMetadata, editMetadataResponse,
          outcomeLog, previousLog, apiLog, crashCause,
          spc, queryObject, searchResults,
          yamlOperation, hpc, results, healthError, batchResult,
          directory, gpc, htmlFiles,
          operation, configOK, indexWritable, icur>>

\* The services checkApiStatus probes, in the order of its apiChecks array.
Services == {"ingest", "ias", "store"}
ServiceOrder == <<"ingest", "ias", "store">>

\* ------------------------------------------------------------ token cache
\* The cleared cache: all four fields null.
ClearedCacheKeepsRefresh(cache) ==
  [accessToken |-> Null, refreshToken |-> cache.refreshToken,
   accessTokenExpirationTime |-> Null,
   refreshTokenExpirationTime |-> cache.refreshTokenExpirationTime]

ClearedCache(cache) ==
  [accessToken |-> Null, refreshToken |-> Null,
   accessTokenExpirationTime |-> Null, refreshTokenExpirationTime |-> Null]

EmptyCache ==
  [accessToken |-> Null, refreshToken |-> Null,
   accessTokenExpirationTime |-> Null, refreshTokenExpirationTime |-> Null]

\* The cached access token is served: it exists, has an expiry, and the
\* call's time is before that expiry.
AccessTokenValidDoubleMargin(cache, t) ==
  /\ cache.accessToken # Null
  /\ cache.accessTokenExpirationTime # Null
  /\ t < cache.accessTokenExpirationTime - SafetyMargin * 1000

AccessTokenValidIgnoresExpiry(cache, t) == cache.accessToken # Null

AccessTokenValid(cache, t) ==
  /\ cache.accessToken # Null
  /\ cache.accessTokenExpirationTime # Null
  /\ t < cache.accessTokenExpirationTime

\* The cached refresh token is tried.
RefreshTokenValidIgnoresExpiry(cache, t) == cache.refreshToken # Null

RefreshTokenValid(cache, t) ==
  /\ cache.refreshToken # Null
  /\ cache.refreshTokenExpirationTime # Null
  /\ t < cache.refreshTokenExpirationTime

\* The expiry cached for an access token.
AccessExpiryNoMargin(start, expiresIn) == start + expiresIn * 1000

AccessExpiry(start, expiresIn) == start + (expiresIn - SafetyMargin) * 1000

\* The expiry cached for a refresh token.
RefreshExpiry(start) == start + RefreshLifetime

\* The cache after a successful response: token id, the call's currentTime
\* and the response's expires_in.
CachedResponseKeepsRefresh(cache, id, start, expiresIn) ==
  [accessToken |-> id,
   refreshToken |-> IF cache.refreshToken = Null THEN id ELSE cache.refreshToken,
   accessTokenExpirationTime |-> AccessExpiry(start, expiresIn),
   refreshTokenExpirationTime |-> RefreshExpiry(start)]

CachedResponse(cache, id, start, expiresIn) ==
  [accessToken |-> id, refreshToken |-> id,
   accessTokenExpirationTime |-> AccessExpiry(start, expiresIn),
   refreshTokenExpirationTime |-> RefreshExpiry(start)]

\* The check of the four environment variables before a password grant.
CredentialsMissingUserOnly(e) ==
  ~({"API_USERNAME", "API_PASSWORD"} \subseteq e)

CredentialsMissing(e) == ~(EnvVars \subseteq e)

Awaiting(p) == pc[p] \in {"awaitRefresh", "awaitPassword"}

\* ------------------------------------------------------ getToken, by step
\* Lines 90-108: the password grant is sent, unless a variable is missing.
RequestNewToken(p) ==
  IF CredentialsMissing(env)
    THEN /\ pc' = [pc EXCEPT ![p] = "thrown"]
         /\ tokenLog' = tokenLog
    ELSE /\ pc' = [pc EXCEPT ![p] = "awaitPassword"]
         /\ tokenLog' = Append(tokenLog,
              [grant |-> "password", caller |-> p, refresh |-> Null])

\* What the catch block of the refresh attempt leads to: nothing is
\* rethrown, the call falls through to the password grant.
AfterRefreshFailureRethrows(p) ==
  /\ pc' = [pc EXCEPT ![p] = "thrown"]
  /\ tokenLog' = tokenLog

AfterRefreshFailure(p) == RequestNewToken(p)

\* Lines 43-108, up to the first await of the call.
GetTokenCall(p) ==
  /\ ~Awaiting(p)
  /\ callCount' = [callCount EXCEPT ![p] = @ + 1]
  /\ currentTime' = [currentTime EXCEPT ![p] = now]
  /\ IF AccessTokenValid(tokenCache, now)
       THEN /\ pc' = [pc EXCEPT ![p] = "returned"]
            /\ tokenResult' = [tokenResult EXCEPT ![p] = tokenCache.accessToken]
            /\ tokenLog' = tokenLog
            /\ refreshSent' = refreshSent
       ELSE /\ tokenResult' = [tokenResult EXCEPT ![p] = Null]
            /\ IF RefreshTokenValid(tokenCache, now)
                 THEN /\ pc' = [pc EXCEPT ![p] = "awaitRefresh"]
                      /\ refreshSent' =
                           [refreshSent EXCEPT ![p] = tokenCache.refreshToken]
                      /\ tokenLog' = Append(tokenLog,
                           [grant |-> "refresh_token", caller |-> p,
                            refresh |-> tokenCache.refreshToken])
                 ELSE /\ RequestNewToken(p)
                      /\ refreshSent' = refreshSent
  /\ UNCHANGED <<env, lifetimes, now, ticks, tokenCache, issued, discarded>>

\* Lines 66-77: the refresh grant is answered with tokens.
RefreshGranted(p) ==
  /\ pc[p] = "awaitRefresh"
  /\ \E e \in lifetimes :
       /\ issued' = Append(issued, [start |-> currentTime[p], expiresIn |-> e])
       /\ tokenCache' =
            CachedResponse(tokenCache, Len(issued) + 1, currentTime[p], e)
  /\ pc' = [pc EXCEPT ![p] = "returned"]
  /\ tokenResult' = [tokenResult EXCEPT ![p] = Len(issued) + 1]
  /\ UNCHANGED <<env, lifetimes, now, ticks, currentTime, refreshSent, callCount,
                 tokenLog, discarded>>
  /\ UNCHANGED batchVars

\* Lines 78-108: the refresh grant fails; the cache is cleared and the call
\* goes on to the password grant.
RefreshRejected(p) ==
  /\ pc[p] = "awaitRefresh"
  /\ tokenCache' = ClearedCache(tokenCache)
  /\ discarded' = discarded \cup
       ({tokenCache.accessToken, tokenCache.refreshToken, refreshSent[p]}
          \ {Null})
  /\ AfterRefreshFailure(p)
  /\ UNCHANGED <<env, lifetimes, now, ticks, currentTime, refreshSent, tokenResult,
                 callCount, issued>>
  /\ UNCHANGED batchVars

\* Lines 108-123: the password grant is answered with tokens.
PasswordGranted(p) ==
  /\ pc[p] = "awaitPassword"
  /\ \E e \in lifetimes :
       /\ issued' = Append(issued, [start |-> currentTime[p], expiresIn |-> e])
       /\ tokenCache' =
            CachedResponse(tokenCache, Len(issued) + 1, currentTime[p], e)
  /\ pc' = [pc EXCEPT ![p] = "returned"]
  /\ tokenResult' = [tokenResult EXCEPT ![p] = Len(issued) + 1]
  /\ UNCHANGED <<env, lifetimes, now, ticks, currentTime, refreshSent, callCount,
                 tokenLog, discarded>>
  /\ UNCHANGED batchVars

\* Lines 124-134: the password grant fails; the cache is cleared and the
\* error is thrown to the caller.
PasswordRejected(p) ==
  /\ pc[p] = "awaitPassword"
  /\ tokenCache' = ClearedCache(tokenCache)
  /\ pc' = [pc EXCEPT ![p] = "thrown"]
  /\ UNCHANGED <<env, lifetimes, now, ticks, currentTime, refreshSent, tokenResult,
                 callCount, tokenLog, issued, discarded>>
  /\ UNCHANGED batchVars

\* Time passes, while the program waits: for a response, or for the user.
Waiting ==
  \/ bpc \in {"main", "search_wait", "metadata_wait", "edit_wait"}
  \/ Awaiting(BatchCaller)
  \/ hpc = "probes"

Tick ==
  /\ ticks < MaxTicks
  /\ Waiting
  /\ \E d \in ClockSteps : now' = now + d
  /\ ticks' = ticks + 1
  /\ UNCHANGED <<env, lifetimes, tokenCache, pc, currentTime, refreshSent, tokenResult,
                 callCount, tokenLog, issued, discarded>>
  /\ UNCHANGED batchVars

\* A client calls the exported getToken, whatever other calls are pending.
ClientCall(p) ==
  /\ callCount["c1"] + callCount["c2"] < MaxCalls
  /\ GetTokenCall(p)
  /\ UNCHANGED batchVars

TokenInit ==
  /\ env \in SUBSET EnvVars
  /\ lifetimes \in (SUBSET ExpiresInValues) \ {{}}
  /\ now = StartTime
  /\ ticks = 0
  /\ tokenCache = EmptyCache
  /\ pc = [p \in Callers |-> "idle"]
  /\ currentTime = [p \in Callers |-> Null]
  /\ refreshSent = [p \in Callers |-> Null]
  /\ tokenResult = [p \in Callers |-> Null]
  /\ callCount = [p \in Callers |-> 0]
  /\ tokenLog = <<>>
  /\ issued = <<>>
  /\ discarded = {}

\* ------------------------------------------------------------------ strings
\* A string is a sequence of characters, so that joining, trimming and
\* lower-casing are computed as the code computes them.
sHome == <<"H", "o", "m", "e">>
sIntro == <<"I", "n", "t", "r", "o">>
sIntroLower == <<"i", "n", "t", "r", "o">>
sGuide == <<"G", "u", "i", "d", "e">>
sGuideLower == <<"g", "u", "i", "d", "e">>
sOldTitle == <<"O", "l", "d", " ", "T", "i", "t", "l", "e">>
sMisc == <<"M", "i", "s", "c">>
sHomeIntroLower ==
  <<"h", "o", "m", "e", ";", " ", "i", "n", "t", "r", "o", ";">>
sHomeIntro == <<"H", "o", "m", "e", ";", " ", "I", "n", "t", "r", "o">>

\* String.prototype.toLowerCase, on the characters the model uses.
LowerChar(c) ==
  CASE c = "G" -> "g" [] c = "H" -> "h" [] c = "I" -> "i"
    [] c = "L" -> "l" [] c = "M" -> "m" [] c = "O" -> "o" [] c = "T" -> "t"
    [] OTHER -> c

ToLowerCase(s) == [i \in 1..Len(s) |-> LowerChar(s[i])]

\* String.prototype.trim: leading and trailing blanks are dropped.
RECURSIVE TrimStart(_)
TrimStart(s) ==
  IF s # <<>> /\ Head(s) = " " THEN TrimStart(Tail(s)) ELSE s

RECURSIVE TrimEnd(_)
TrimEnd(s) ==
  IF s # <<>> /\ s[Len(s)] = " "
    THEN TrimEnd(SubSeq(s, 1, Len(s) - 1))
    ELSE s

Trim(s) == TrimEnd(TrimStart(s))

\* ------------------------------------------------------------- file records
\* undefined and null, as values of a record or metadata variable.
Undefined == [undefined |-> TRUE]
NullValue == [null |-> TRUE]

\* Index entries as extractTitleAndBreadcrumbs writes them: the title is
\* never empty, breadcrumbs are present only when there are some.
RecIntro ==
  [filename |-> "a.html", title |-> sIntro, breadcrumbs |-> <<sHome, sIntro>>]
RecGuide == [filename |-> "b.html", title |-> sGuide]

Indexes == {<<RecIntro, RecGuide>>}

\* --------------------------------------------------------- remote documents
Paths == {"/a.html", "/b.html"}

MetaIntro ==
  [FilePath |-> "/a.html", Title |-> sIntroLower,
   Keywords_txt |-> sHomeIntroLower, Author |-> "docs"]
MetaOld == [FilePath |-> "/a.html", Title |-> sOldTitle]
MetaNoPath == [Title |-> sOldTitle, Author |-> "docs"]
MetaGuide == [FilePath |-> "/b.html", Title |-> sGuide]
MetaGuideKeywords ==
  [FilePath |-> "/b.html", Title |-> sGuideLower, Keywords_txt |-> sMisc]
MetaEmptyPath == [FilePath |-> "", Title |-> sOldTitle]
MetaHomeIntro ==
  [FilePath |-> "/a.html", Title |-> sIntroLower, Keywords_txt |-> sHomeIntro]

StoreOf(a, b) == [p \in Paths |-> IF p = "/a.html" THEN a ELSE b]

Stores ==
  {StoreOf(MetaIntro, MetaGuide), StoreOf(MetaOld, MetaGuideKeywords),
   StoreOf(MetaNoPath, MetaEmptyPath), StoreOf(MetaHomeIntro, MetaGuide)}

\* ------------------------------------------------------------- processFile
\* A metadata value that is present and not the empty string (truthy).
HasText(meta, key) == key \in DOMAIN meta /\ meta[key] # <<>>

\* Lines 95-101: the breadcrumbs, each followed by "; ", then trimmed.
RECURSIVE JoinKeywords(_)
JoinKeywords(crumbs) ==
  IF crumbs = <<>> THEN <<>>
  ELSE Head(crumbs) \o <<";", " ">> \o JoinKeywords(Tail(crumbs))

NewKeywords(rec) ==
  IF "breadcrumbs" \in DOMAIN rec
    THEN Trim(JoinKeywords(rec.breadcrumbs))
    ELSE <<>>

\* Lines 104 and 108: the comparisons that fold case.
SameTextExact(a, b) == a = b

SameText(a, b) == ToLowerCase(a) = ToLowerCase(b)

\* Lines 103-123: processFile returns without writing.
AlreadyCorrect(meta, rec) ==
  /\ HasText(meta, "Title")
  /\ rec.title # <<>>
  /\ SameText(meta.Title, rec.title)
  /\ IF HasText(meta, "Keywords_txt")
       THEN SameText(meta.Keywords_txt, NewKeywords(rec))
       ELSE Len(NewKeywords(rec)) = 0

\* Lines 125-128: the object handed to editFileMetadata.
WithKeyDropsOthers(meta, key, value) ==
  [k \in (DOMAIN meta \cap {"FilePath", "Title", "Keywords_txt"}) \cup {key}
     |-> IF k = key THEN value ELSE meta[k]]

WithKey(meta, key, value) ==
  [k \in DOMAIN meta \cup {key} |-> IF k = key THEN value ELSE meta[k]]

BuildNewMetadataAlwaysKeywords(meta, rec) ==
  WithKey(WithKey(meta, "Title", rec.title), "Keywords_txt", NewKeywords(rec))

BuildNewMetadata(meta, rec) ==
  LET titled == WithKey(meta, "Title", rec.title)
  IN IF Len(NewKeywords(rec)) > 0
       THEN WithKey(titled, "Keywords_txt", NewKeywords(rec))
       ELSE titled

\* Line 155 of editFileMetadata: !newMetadata?.FilePath?.length
FilePathMissingOnlyIfAbsent(meta) == "FilePath" \notin DOMAIN meta

FilePathMissing(meta) ==
  \/ "FilePath" \notin DOMAIN meta
  \/ meta.FilePath = ""

\* Lines 63-64 of updateCloudMetadata: index[index.findIndex(...)].
FindEntry(idx, file) ==
  IF \E i \in 1..Len(idx) : idx[i].filename = file
    THEN idx[CHOOSE i \in 1..Len(idx) :
               /\ idx[i].filename = file
               /\ \A j \in 1..(i - 1) : idx[j].filename # file]
    ELSE Undefined

\* What processFile receives as its record. empolis_ops.js calls
\* processFile({ fileData }) while processFile destructures { dataObject };
\* index.js passes the entry by position.
ProcessFileArgument(d, fileData) ==
  IF d = "ops" THEN Undefined ELSE fileData

\* Line 38 of getFileMetadata: the parsed body of the GET for a path, the
\* metadata the store holds for it.
FetchedMetadataOfFirst(st, path) == st["/a.html"]

FetchedMetadata(st, path) == st[path]

\* Line 176: editFileMetadata returns the status code of the response.
StatusCode(n) == [statusCode |-> n]

\* Lines 132-136: what processFile logs for what editFileMetadata returned,
\* a status code or undefined.
EditOutcomeAnyStatus(response) ==
  IF response # Undefined THEN "updated" ELSE "failed"

EditOutcome(response) ==
  IF response = StatusCode(Accepted) THEN "updated" ELSE "failed"

\* ----------------------------------------------------------- batch, by step
BatchTokenDone == pc[BatchCaller] \in {"returned", "thrown"}

\* An error escapes processFile and updateCloudMetadata to main's catch.
Crash(cause) ==
  /\ bpc' = "crashed"
  /\ crashCause' = cause

\* for (const file of fileList): the filename the loop takes at a position.
FileAtReversed(list, i) == list[Len(list) + 1 - i]

FileAt(list, i) == list[i]

\* Whether a function awaits getToken outside its try block, so that a
\* getToken error leaves the function: editFileMetadata (line 159) and the
\* updateCloudMetadata of index.js (line 161) do; indexSearch and
\* getFileMetadata await it inside and return undefined on an error.
GetTokenOutsideTryBatchOnly(fn) == fn = "updateCloudMetadata"

GetTokenOutsideTry(fn) == fn \in {"editFileMetadata", "updateCloudMetadata"}

\* processFile returns; the loop goes to the next filename.
FinishRetriesFailed(result) ==
  /\ outcomeLog' = Append(outcomeLog,
       [file |-> dataObject.filename, result |-> result])
  /\ previousLog' = previousLog
  /\ cur' = IF result = "failed" THEN cur ELSE cur + 1
  /\ bpc' = "loop"
  /\ dataObject' = Undefined
  /\ curPath' = ""
  /\ fileMetadata' = Undefined
  /\ newMetadata' = Undefined
  /\ apiLog' = <<>>

Finish(result) ==
  /\ outcomeLog' = Append(outcomeLog,
       [file |-> dataObject.filename, result |-> result])
  /\ previousLog' = previousLog
  /\ cur' = cur + 1
  /\ bpc' = "loop"
  /\ dataObject' = Undefined
  /\ curPath' = ""
  /\ fileMetadata' = Undefined
  /\ newMetadata' = Undefined
  /\ apiLog' = <<>>

ApiRequest(op, body) ==
  apiLog' = Append(apiLog,
    [op |-> op, run |-> run, file |-> dataObject.filename,
     token |-> tokenResult[BatchCaller], body |-> body])

\* main selects the update operation: updateCloudMetadata starts. The one
\* of index.js begins by awaiting getToken().
StartUpdate ==
  /\ UNCHANGED searchVars
  /\ UNCHANGED healthVars
  /\ UNCHANGED filesVars
  /\ batchResult' = Undefined
  /\ editMetadataResponse' = editMetadataResponse
  /\ bpc = "main"
  /\ run < MaxRuns
  /\ run' = run + 1
  /\ cur' = 1
  /\ IF driver = "index"
       THEN /\ GetTokenCall(BatchCaller)
            /\ bpc' = "batch_token"
       ELSE /\ UNCHANGED tokenVars
            /\ bpc' = "loop"
  /\ previousLog' = outcomeLog
  /\ outcomeLog' = <<>>
  /\ UNCHANGED <<driver, index, fileList, store, dataObject, curPath,
                 fileMetadata, newMetadata, apiLog, crashCause>>

\* index.js line 161: the token is there, or the error goes to main.
BatchTokenReturned ==
  /\ UNCHANGED searchVars
  /\ UNCHANGED programVars
  /\ editMetadataResponse' = editMetadataResponse
  /\ bpc = "batch_token"
  /\ BatchTokenDone
  /\ IF pc[BatchCaller] = "thrown" /\ GetTokenOutsideTry("updateCloudMetadata")
       THEN Crash("batch_token_failed")
       ELSE bpc' = "loop" /\ crashCause' = crashCause
  /\ UNCHANGED tokenVars
  /\ UNCHANGED <<driver, index, fileList, store, run, cur, dataObject, curPath,
                 fileMetadata, newMetadata, outcomeLog, previousLog, apiLog>>

\* The for loop ends: updateCloudMetadata returns to main.
BatchCompleted ==
  /\ UNCHANGED searchVars
  /\ UNCHANGED healthVars
  /\ UNCHANGED filesVars
  /\ batchResult' = NullValue
  /\ editMetadataResponse' = Undefined
  /\ bpc = "loop"
  /\ cur > Len(fileList)
  /\ bpc' = "main"
  /\ UNCHANGED tokenVars
  /\ UNCHANGED <<driver, index, fileList, store, run, cur, dataObject, curPath,
                 fileMetadata, newMetadata, outcomeLog, previousLog, apiLog, crashCause>>

\* The for loop takes the next filename and calls processFile, which logs
\* dataObject.filename (a TypeError without a record) and starts the search:
\* fileSearch -> indexSearch -> getToken.
ProcessFileStart ==
  /\ UNCHANGED searchVars
  /\ UNCHANGED programVars
  /\ editMetadataResponse' = Undefined
  /\ bpc = "loop"
  /\ cur <= Len(fileList)
  /\ LET arg == ProcessFileArgument(driver,
                  FindEntry(index, FileAt(fileList, cur)))
     IN IF arg = Undefined
          THEN /\ Crash("no_record")
               /\ dataObject' = arg
               /\ UNCHANGED tokenVars
          ELSE /\ dataObject' = arg
               /\ GetTokenCall(BatchCaller)
               /\ bpc' = "search_token"
               /\ crashCause' = crashCause
  /\ UNCHANGED <<driver, index, fileList, store, run, cur, curPath,
                 fileMetadata, newMetadata, outcomeLog, previousLog, apiLog>>

\* indexSearch has its token and posts the query; or getToken threw,
\* indexSearch swallows the error and returns undefined, fileSearch returns
\* null and processFile reads null.Title.
SearchSend ==
  /\ UNCHANGED searchVars
  /\ UNCHANGED programVars
  /\ editMetadataResponse' = editMetadataResponse
  /\ bpc = "search_token"
  /\ BatchTokenDone
  /\ IF pc[BatchCaller] = "thrown"
       THEN /\ Crash("search_token_failed")
            /\ fileMetadata' = NullValue
            /\ apiLog' = apiLog
       ELSE /\ ApiRequest("search",
                 [query |-> [attribute |-> "FileName", nlq |-> dataObject.filename],
                  maxCount |-> 1])
            /\ bpc' = "search_wait"
            /\ UNCHANGED <<fileMetadata, crashCause>>
  /\ UNCHANGED tokenVars
  /\ UNCHANGED <<driver, index, fileList, store, run, cur, dataObject, curPath,
                 newMetadata, outcomeLog, previousLog>>

\* The search request fails: indexSearch returns undefined, fileSearch null.
SearchFailed ==
  /\ UNCHANGED searchVars
  /\ UNCHANGED programVars
  /\ editMetadataResponse' = editMetadataResponse
  /\ bpc = "search_wait"
  /\ fileMetadata' = NullValue
  /\ Crash("search_failed")
  /\ UNCHANGED tokenVars
  /\ UNCHANGED <<driver, index, fileList, store, run, cur, dataObject, curPath,
                 newMetadata, outcomeLog, previousLog, apiLog>>

\* The search answers with no record: fileSearch returns null.
SearchEmpty ==
  /\ UNCHANGED searchVars
  /\ UNCHANGED programVars
  /\ editMetadataResponse' = editMetadataResponse
  /\ bpc = "search_wait"
  /\ fileMetadata' = NullValue
  /\ Crash("not_found")
  /\ UNCHANGED tokenVars
  /\ UNCHANGED <<driver, index, fileList, store, run, cur, dataObject, curPath,
                 newMetadata, outcomeLog, previousLog, apiLog>>

\* The search answers with a first record: getFileMetadata -> getToken.
SearchHit(d) ==
  /\ UNCHANGED searchVars
  /\ UNCHANGED programVars
  /\ editMetadataResponse' = editMetadataResponse
  /\ bpc = "search_wait"
  /\ curPath' = d
  /\ GetTokenCall(BatchCaller)
  /\ bpc' = "metadata_token"
  /\ UNCHANGED <<driver, index, fileList, store, run, cur, dataObject,
                 fileMetadata, newMetadata, outcomeLog, previousLog, apiLog, crashCause>>

\* getFileMetadata has its token and sends the GET; or getToken threw,
\* getFileMetadata swallows the error and returns undefined.
MetadataSend ==
  /\ UNCHANGED searchVars
  /\ UNCHANGED programVars
  /\ editMetadataResponse' = editMetadataResponse
  /\ bpc = "metadata_token"
  /\ BatchTokenDone
  /\ IF pc[BatchCaller] = "thrown"
       THEN /\ Crash("metadata_token_failed")
            /\ apiLog' = apiLog
       ELSE /\ ApiRequest("metadata", curPath)
            /\ bpc' = "metadata_wait"
            /\ crashCause' = crashCause
  /\ UNCHANGED tokenVars
  /\ UNCHANGED <<driver, index, fileList, store, run, cur, dataObject, curPath,
                 fileMetadata, newMetadata, outcomeLog, previousLog>>

\* The GET fails: getFileMetadata returns undefined, processFile reads
\* undefined.Title.
MetadataFailed ==
  /\ UNCHANGED searchVars
  /\ UNCHANGED programVars
  /\ editMetadataResponse' = editMetadataResponse
  /\ bpc = "metadata_wait"
  /\ Crash("metadata_failed")
  /\ UNCHANGED tokenVars
  /\ UNCHANGED <<driver, index, fileList, store, run, cur, dataObject, curPath,
                 fileMetadata, newMetadata, outcomeLog, previousLog, apiLog>>

\* The GET answers: processFile compares and either returns or builds the
\* new metadata and calls editFileMetadata, which throws without FilePath
\* and otherwise awaits getToken.
MetadataFetched ==
  /\ UNCHANGED searchVars
  /\ UNCHANGED programVars
  /\ editMetadataResponse' = editMetadataResponse
  /\ bpc = "metadata_wait"
  /\ LET meta == FetchedMetadata(store, curPath)
         built == BuildNewMetadata(meta, dataObject)
     IN IF AlreadyCorrect(meta, dataObject)
          THEN /\ Finish("skipped")
               /\ UNCHANGED tokenVars
               /\ crashCause' = crashCause
          ELSE /\ fileMetadata' = meta
               /\ newMetadata' = built
               /\ UNCHANGED <<outcomeLog, previousLog, cur, dataObject, curPath>>
               /\ IF FilePathMissing(built)
                    THEN /\ Crash("file_path")
                         /\ UNCHANGED tokenVars
                    ELSE /\ GetTokenCall(BatchCaller)
                         /\ bpc' = "edit_token"
                         /\ crashCause' = crashCause
               /\ apiLog' = apiLog
  /\ UNCHANGED <<driver, index, fileList, store, run>>

\* editFileMetadata has its token and posts the metadata; or getToken
\* threw, outside the try block, and the error leaves processFile.
EditSend ==
  /\ UNCHANGED searchVars
  /\ UNCHANGED programVars
  /\ bpc = "edit_token"
  /\ BatchTokenDone
  /\ IF pc[BatchCaller] = "thrown"
       THEN IF GetTokenOutsideTry("editFileMetadata")
              THEN /\ Crash("edit_token_failed")
                   /\ UNCHANGED <<cur, dataObject, curPath, fileMetadata,
                                  newMetadata, editMetadataResponse,
                                  outcomeLog, previousLog, apiLog>>
              ELSE /\ editMetadataResponse' = Undefined
                   /\ Finish(EditOutcome(Undefined))
                   /\ crashCause' = crashCause
       ELSE /\ ApiRequest("edit", newMetadata)
            /\ bpc' = "edit_wait"
            /\ UNCHANGED <<cur, dataObject, curPath, fileMetadata,
                           newMetadata, editMetadataResponse, outcomeLog,
                           previousLog, crashCause>>
  /\ UNCHANGED tokenVars
  /\ UNCHANGED <<driver, index, fileList, store, run>>

\* The POST answers with a status code; 202 means the store took the
\* metadata as the document's complete metadata.
EditResponded(status) ==
  /\ UNCHANGED searchVars
  /\ UNCHANGED programVars
  /\ bpc = "edit_wait"
  /\ editMetadataResponse' = StatusCode(status)
  /\ store' = IF status = Accepted /\ newMetadata.FilePath \in DOMAIN store
                THEN [store EXCEPT ![newMetadata.FilePath] = newMetadata]
                ELSE store
  /\ Finish(EditOutcome(StatusCode(status)))
  /\ UNCHANGED tokenVars
  /\ UNCHANGED <<driver, index, fileList, run, crashCause>>

\* The POST fails: editFileMetadata logs the error and returns undefined.
EditFailed ==
  /\ UNCHANGED searchVars
  /\ UNCHANGED programVars
  /\ bpc = "edit_wait"
  /\ editMetadataResponse' = Undefined
  /\ Finish(EditOutcome(Undefined))
  /\ UNCHANGED tokenVars
  /\ UNCHANGED <<driver, index, fileList, store, run, crashCause>>

\* ------------------------------------------------- search functions, by step
\* Query objects a caller may hand to a search function: a natural language
\* query (nlq) or an exact-value query (value), against an attribute.
SearchAttributes == {"FileName", "DownloadLink"}
SearchTerms == {"a.html", "zzz"}
Queries ==
  [attribute : SearchAttributes, nlq : SearchTerms]
    \cup [attribute : SearchAttributes, value : SearchTerms]

\* What the search endpoint may answer.
SearchAnswers == {[records |-> <<>>], [records |-> <<[DownloadLink |-> "/a.html"]>>]}

SearchIdle == spc \in {"idle", "returned", "thrown"}

SearchRequest(q) ==
  [op |-> "search", run |-> run, file |-> "",
   token |-> tokenResult[BatchCaller],
   body |-> [query |-> q, maxCount |-> 1]]

\* indexSearch({ queryObject, queryParameters }) is called: it awaits
\* getToken. The query object is not examined.
IndexSearchCall(q) ==
  /\ SearchIdle
  /\ bpc = "main"
  /\ callCount[BatchCaller] < MaxSearches
  /\ GetTokenCall(BatchCaller)
  /\ UNCHANGED programVars
  /\ spc' = "token"
  /\ queryObject' = q
  /\ searchResults' = Undefined
  /\ apiLog' = <<>>
  /\ UNCHANGED <<driver, index, fileList, store, run, bpc, cur, dataObject,
                 curPath, fileMetadata, newMetadata, editMetadataResponse,
                 outcomeLog, previousLog, crashCause>>

\* indexSearch has its token and posts the query as it got it; or getToken
\* threw, and indexSearch logs the error and returns undefined.
IndexSearchSend ==
  /\ spc = "token"
  /\ BatchTokenDone
  /\ IF pc[BatchCaller] = "thrown"
       THEN /\ spc' = "returned"
            /\ apiLog' = apiLog
       ELSE /\ spc' = "wait"
            /\ apiLog' = Append(apiLog, SearchRequest(queryObject))
  /\ UNCHANGED tokenVars
  /\ UNCHANGED programVars
  /\ UNCHANGED <<driver, index, fileList, store, run, bpc, cur, dataObject,
                 curPath, fileMetadata, newMetadata, editMetadataResponse,
                 outcomeLog, previousLog, crashCause, queryObject,
                 searchResults>>

\* vfqSearch of the earlier search module is called with a token: it throws
\* on the attribute FileName before anything is sent, prefixes the term
\* with the data source for DownloadLink, and posts an exact-value query.
VfqSearchCall(searchAttribute, searchTerm) ==
  /\ SearchIdle
  /\ bpc = "main"
  /\ searchResults' = Undefined
  /\ IF searchAttribute = "FileName"
       THEN /\ spc' = "thrown"
            /\ queryObject' = Undefined
            /\ apiLog' = <<>>
       ELSE /\ spc' = "wait"
            /\ queryObject' =
                 [attribute |-> searchAttribute, value |-> searchTerm]
            /\ apiLog' = <<SearchRequest(
                 [attribute |-> searchAttribute, value |-> searchTerm])>>
  /\ UNCHANGED tokenVars
  /\ UNCHANGED programVars
  /\ UNCHANGED <<driver, index, fileList, store, run, bpc, cur, dataObject,
                 curPath, fileMetadata, newMetadata, editMetadataResponse,
                 outcomeLog, previousLog, crashCause>>

\* The search endpoint answers: the parsed body is returned.
SearchAnswered(answer) ==
  /\ spc = "wait"
  /\ spc' = "returned"
  /\ searchResults' = answer
  /\ UNCHANGED tokenVars
  /\ UNCHANGED programVars
  /\ UNCHANGED <<driver, index, fileList, store, run, bpc, cur, dataObject,
                 curPath, fileMetadata, newMetadata, editMetadataResponse,
                 outcomeLog, previousLog, apiLog, crashCause, queryObject>>

\* The request fails: the catch block logs the error, and the function
\* returns undefined.
SearchRequestFailed ==
  /\ spc = "wait"
  /\ spc' = "returned"
  /\ searchResults' = Undefined
  /\ UNCHANGED tokenVars
  /\ UNCHANGED programVars
  /\ UNCHANGED <<driver, index, fileList, store, run, bpc, cur, dataObject,
                 curPath, fileMetadata, newMetadata, editMetadataResponse,
                 outcomeLog, previousLog, apiLog, crashCause, queryObject>>

\* ----------------------------------------------------- checkApiStatus, by step
\* The variables of the batch that a health check leaves alone.
recordVars == <<driver, index, fileList, store, run, cur, dataObject, curPath,
                fileMetadata, newMetadata, editMetadataResponse, outcomeLog,
                previousLog, apiLog>>

\* What the alive endpoint may report as `operational`.
Operational == {"true", "false"}

\* Line 204: !result, for what apiOperational returned: the reported
\* boolean, or undefined after a failed request.
FalsyOnlyFalse(result) == result = "false"

Falsy(result) == result \in {"false", "undefined"}

\* Line 201: serviceNames.
ServiceName(s) ==
  CASE s = "ingest" -> "INGEST" [] s = "ias" -> "IAS" [] s = "store" -> "STORE"

\* Lines 203-207: forEach throws at the first falsy result; 0 when none is.
RECURSIVE FirstDown(_, _)
FirstDown(res, i) ==
  IF i > Len(ServiceOrder) THEN 0
  ELSE IF Falsy(res[ServiceOrder[i]]) THEN i
  ELSE FirstDown(res, i + 1)

\* Line 205: the services named by `Empolis ${serviceNames[index]} Service
\* Down`.
ServiceDownError(res) ==
  IF FirstDown(res, 1) = 0 THEN <<>>
  ELSE <<ServiceName(ServiceOrder[FirstDown(res, 1)])>>

\* config.js line 54: loadConfig runs checkApiStatus when testApi is set and
\* config.yaml has no OPERATION. The loadConfig of helpers.js, which
\* index.js imports, takes promptUser only and never runs it.
ApiTested(d, yamlOp) == d = "ops" /\ yamlOp = ""

\* checkApiStatus has ended. At startup its error rejects the top-level
\* await of the main module, and the program ends before main() is called.
HealthEnds(passed) ==
  IF bpc = "health"
    THEN /\ bpc' = IF passed THEN "main" ELSE "terminated"
         /\ crashCause' = IF passed THEN crashCause ELSE "health"
    ELSE UNCHANGED <<bpc, crashCause>>

\* Lines 177-180: checkApiStatus starts and awaits getToken.
CheckApiStatusStart ==
  /\ GetTokenCall(BatchCaller)
  /\ hpc' = "token"
  /\ results' = [s \in Services |-> "none"]
  /\ healthError' = <<>>

\* The main module is loaded: loadConfig(), then loadConfig({ promptUser,
\* testApi }), and main() waits for the user's choice.
ModuleInit ==
  /\ bpc = "startup"
  /\ IF ApiTested(driver, yamlOperation)
       THEN /\ CheckApiStatusStart
            /\ bpc' = "health"
       ELSE /\ bpc' = "main"
            /\ UNCHANGED tokenVars
            /\ UNCHANGED <<hpc, results, healthError>>
  /\ UNCHANGED <<yamlOperation, batchResult, crashCause>>
  /\ UNCHANGED recordVars
  /\ UNCHANGED searchVars
  /\ UNCHANGED filesVars

\* A caller calls the exported checkApiStatus.
CheckApiStatusCall ==
  /\ bpc = "main"
  /\ hpc \notin {"token", "probes"}
  /\ callCount[BatchCaller] < MaxChecks
  /\ CheckApiStatusStart
  /\ UNCHANGED <<yamlOperation, batchResult, bpc, crashCause>>
  /\ UNCHANGED recordVars
  /\ UNCHANGED searchVars
  /\ UNCHANGED filesVars

\* Lines 180-200: getToken threw, outside any try block, and checkApiStatus
\* rejects; or the three apiOperational calls are made, each of which sends
\* its request before checkApiStatus awaits Promise.all.
ProbesSend ==
  /\ hpc = "token"
  /\ BatchTokenDone
  /\ IF pc[BatchCaller] = "thrown"
       THEN /\ hpc' = "token_failed"
            /\ results' = results
            /\ HealthEnds(FALSE)
       ELSE /\ hpc' = "probes"
            /\ results' = [s \in Services |-> "pending"]
            /\ UNCHANGED <<bpc, crashCause>>
  /\ UNCHANGED <<yamlOperation, healthError, batchResult>>
  /\ UNCHANGED tokenVars
  /\ UNCHANGED recordVars
  /\ UNCHANGED searchVars
  /\ UNCHANGED filesVars

\* Lines 233-235: a probe is answered; apiOperational returns the
\* `operational` of the body.
ProbeAnswered(s, operational) ==
  /\ hpc = "probes"
  /\ results[s] = "pending"
  /\ results' = [results EXCEPT ![s] = operational]
  /\ UNCHANGED <<yamlOperation, hpc, healthError, batchResult, bpc, crashCause>>
  /\ UNCHANGED tokenVars
  /\ UNCHANGED recordVars
  /\ UNCHANGED searchVars
  /\ UNCHANGED filesVars

\* Lines 236-239: a probe's request fails; apiOperational logs the error
\* and returns undefined.
ProbeFailed(s) ==
  /\ hpc = "probes"
  /\ results[s] = "pending"
  /\ results' = [results EXCEPT ![s] = "undefined"]
  /\ UNCHANGED <<yamlOperation, hpc, healthError, batchResult, bpc, crashCause>>
  /\ UNCHANGED tokenVars
  /\ UNCHANGED recordVars
  /\ UNCHANGED searchVars
  /\ UNCHANGED filesVars

\* Lines 200-209: Promise.all has all three results; the first falsy one
\* throws, otherwise checkApiStatus returns.
HealthEvaluate ==
  /\ hpc = "probes"
  /\ \A s \in Services : results[s] # "pending"
  /\ IF FirstDown(results, 1) = 0
       THEN /\ hpc' = "passed"
            /\ healthError' = healthError
            /\ HealthEnds(TRUE)
       ELSE /\ hpc' = "failed"
            /\ healthError' = ServiceDownError(results)
            /\ HealthEnds(FALSE)
  /\ UNCHANGED <<yamlOperation, results, batchResult>>
  /\ UNCHANGED tokenVars
  /\ UNCHANGED recordVars
  /\ UNCHANGED searchVars
  /\ UNCHANGED filesVars

\* ------------------------------------------------------------- getHtmlFiles
\* Filenames a directory may hold, as characters: two HTML files, one of
\* them with an upper-case extension, a text file, a dot file, a backup of
\* an HTML file, and the index directory createFileIndex makes.
fIntro == <<"a", ".", "h", "t", "m", "l">>
fGuide == <<"b", ".", "H", "T", "M">>
fNotes == <<"c", ".", "t", "x", "t">>
fDot == <<".", "h", "t", "m", "l">>
fBackup == <<"e", ".", "h", "t", "m", ".", "b", "a", "k">>
fIndexDir == <<"i", "n", "d", "e", "x">>

FileNames == {fIntro, fGuide, fNotes, fDot, fBackup, fIndexDir}

\* What fs.readdir may give: each entry once.
Directories ==
  {d \in UNION {[1..n -> FileNames] : n \in 0..MaxFiles} :
     \A i, j \in 1..Len(d) : d[i] = d[j] => i = j}

\* path.extname: from the last dot to the end; empty when there is no dot
\* or the only dot is the first character.
LastDot(s) ==
  IF \E i \in 1..Len(s) : s[i] = "."
    THEN CHOOSE i \in 1..Len(s) :
           s[i] = "." /\ \A j \in (i + 1)..Len(s) : s[j] # "."
    ELSE 0

ExtName(s) ==
  IF LastDot(s) <= 1 THEN <<>> ELSE SubSeq(s, LastDot(s), Len(s))

\* Lines 104-107 of helpers.js: the filter of getHtmlFiles.
IsHtmlFile(file) ==
  \/ ToLowerCase(ExtName(file)) = <<".", "h", "t", "m", "l">>
  \/ ToLowerCase(ExtName(file)) = <<".", "h", "t", "m">>

\* Lines 101-103: getHtmlFiles is called and awaits fs.readdir.
GetHtmlFilesCall ==
  /\ gpc = "idle"
  /\ gpc' = "readdir"
  /\ UNCHANGED <<directory, htmlFiles>>
  /\ UNCHANGED mainVars
  /\ UNCHANGED <<healthVars, batchResult, bpc, crashCause>>
  /\ UNCHANGED tokenVars
  /\ UNCHANGED recordVars
  /\ UNCHANGED searchVars

\* Lines 103-112: readdir answers; the entries are filtered, and an empty
\* result throws, which the catch block wraps and throws again.
ReaddirAnswered ==
  /\ gpc = "readdir"
  /\ IF Len(SelectSeq(directory, IsHtmlFile)) = 0
       THEN /\ gpc' = "thrown_empty"
            /\ htmlFiles' = Undefined
       ELSE /\ gpc' = "returned"
            /\ htmlFiles' = SelectSeq(directory, IsHtmlFile)
  /\ UNCHANGED directory
  /\ UNCHANGED mainVars
  /\ UNCHANGED <<healthVars, batchResult, bpc, crashCause>>
  /\ UNCHANGED tokenVars
  /\ UNCHANGED recordVars
  /\ UNCHANGED searchVars

\* Lines 110-113: readdir fails (the directory cannot be read).
ReaddirFailed ==
  /\ gpc = "readdir"
  /\ gpc' = "thrown_readdir"
  /\ htmlFiles' = Undefined
  /\ UNCHANGED directory
  /\ UNCHANGED mainVars
  /\ UNCHANGED <<healthVars, batchResult, bpc, crashCause>>
  /\ UNCHANGED tokenVars
  /\ UNCHANGED recordVars
  /\ UNCHANGED searchVars

\* ------------------------------------------------------ main loop, by step
\* Line 53 of main: the operations that create the index file first.
CreatesIndex(op) == op \in {"index", "update"}

\* Line 57 of main: the operation that runs updateCloudMetadata.
RunsUpdateAlsoIndex(op) == op \in {"index", "update"}

RunsUpdate(op) == op = "update"

\* createUpdateIndexFile, lines 29-64: the file list it returns for the
\* user's answer to the directory confirmation; when the user declines,
\* 'Operation cancelled' is thrown and caught, and the list is empty.
ConfirmedFileListIgnoresAnswer(ok, idx) ==
  [i \in 1..Len(idx) |-> idx[i].filename]

ConfirmedFileList(ok, idx) ==
  IF ok THEN [i \in 1..Len(idx) |-> idx[i].filename] ELSE <<>>

\* One iteration of main's loop starts with the operation the user
\* selected: the index is created for 'index' and 'update', after the
\* directory confirmation; updateCloudMetadata starts for 'update';
\* fileSearch -> indexSearch -> getToken starts for 'file_search'.
SelectOperation(op, ok, searchTerm) ==
  /\ bpc = "main"
  /\ run < MaxRuns
  /\ run' = run + 1
  /\ operation' = op
  /\ configOK' = IF CreatesIndex(op)
                   THEN IF ok THEN "yes" ELSE "no"
                   ELSE "unset"
  /\ fileList' = IF CreatesIndex(op)
                   THEN ConfirmedFileList(ok, index)
                   ELSE fileList
  /\ apiLog' = <<>>
  /\ IF RunsUpdate(op)
       THEN /\ cur' = 1
            /\ previousLog' = outcomeLog
            /\ outcomeLog' = <<>>
            /\ batchResult' = Undefined
            /\ UNCHANGED <<queryObject, searchResults>>
            /\ IF driver = "index"
                 THEN /\ GetTokenCall(BatchCaller)
                      /\ bpc' = "batch_token"
                 ELSE /\ UNCHANGED tokenVars
                      /\ bpc' = "loop"
       ELSE /\ UNCHANGED <<cur, previousLog, outcomeLog, batchResult>>
            /\ IF op = "file_search"
                 THEN /\ GetTokenCall(BatchCaller)
                      /\ bpc' = "fs_token"
                      /\ queryObject' =
                           [attribute |-> "FileName", nlq |-> searchTerm]
                      /\ searchResults' = Undefined
                 ELSE /\ UNCHANGED tokenVars
                      /\ UNCHANGED <<bpc, queryObject, searchResults>>
  /\ UNCHANGED <<driver, index, store, dataObject, curPath, fileMetadata,
                 newMetadata, editMetadataResponse, crashCause, spc>>
  /\ UNCHANGED <<healthVars, directory, gpc, htmlFiles, indexWritable, icur>>

\* The variables a file search of main leaves alone.
fileSearchFrame == <<driver, index, fileList, store, run, cur, dataObject,
                     newMetadata, editMetadataResponse, outcomeLog,
                     previousLog, crashCause, spc, queryObject>>

\* indexSearch has its token and posts the query; or getToken threw,
\* indexSearch returns undefined, fileSearch null, and main goes on.
FileSearchSend ==
  /\ bpc = "fs_token"
  /\ BatchTokenDone
  /\ IF pc[BatchCaller] = "thrown"
       THEN /\ bpc' = "main"
            /\ apiLog' = apiLog
       ELSE /\ bpc' = "fs_wait"
            /\ apiLog' = Append(apiLog,
                 [op |-> "search", run |-> run, file |-> queryObject.nlq,
                  token |-> tokenResult[BatchCaller],
                  body |-> [query |-> queryObject, maxCount |-> 1]])
  /\ UNCHANGED <<curPath, fileMetadata, searchResults>>
  /\ UNCHANGED tokenVars
  /\ UNCHANGED fileSearchFrame
  /\ UNCHANGED programVars

\* The search answers: without a record fileSearch returns null; with one
\* it calls getFileMetadata for the first record's DownloadLink.
FileSearchAnswered(answer) ==
  /\ bpc = "fs_wait"
  /\ searchResults' = answer
  /\ IF answer.records = <<>>
       THEN /\ bpc' = "main"
            /\ curPath' = curPath
            /\ UNCHANGED tokenVars
       ELSE /\ bpc' = "fs_metadata_token"
            /\ curPath' = answer.records[1].DownloadLink
            /\ GetTokenCall(BatchCaller)
  /\ UNCHANGED <<fileMetadata, apiLog>>
  /\ UNCHANGED fileSearchFrame
  /\ UNCHANGED programVars

\* The search request fails: indexSearch returns undefined.
FileSearchFailed ==
  /\ bpc = "fs_wait"
  /\ bpc' = "main"
  /\ searchResults' = Undefined
  /\ UNCHANGED <<curPath, fileMetadata, apiLog>>
  /\ UNCHANGED tokenVars
  /\ UNCHANGED fileSearchFrame
  /\ UNCHANGED programVars

\* getFileMetadata has its token and sends the GET; or getToken threw and
\* it returns undefined.
FileMetadataSend ==
  /\ bpc = "fs_metadata_token"
  /\ BatchTokenDone
  /\ IF pc[BatchCaller] = "thrown"
       THEN /\ bpc' = "main"
            /\ apiLog' = apiLog
       ELSE /\ bpc' = "fs_metadata_wait"
            /\ apiLog' = Append(apiLog,
                 [op |-> "metadata", run |-> run, file |-> queryObject.nlq,
                  token |-> tokenResult[BatchCaller], body |-> curPath])
  /\ UNCHANGED <<curPath, fileMetadata, searchResults>>
  /\ UNCHANGED tokenVars
  /\ UNCHANGED fileSearchFrame
  /\ UNCHANGED programVars

\* The GET answers, or fails: fileSearch returns the metadata, or
\* undefined, to main, which logs it.
FileMetadataReturned(answered) ==
  /\ bpc = "fs_metadata_wait"
  /\ bpc' = "main"
  /\ fileMetadata' = IF answered THEN FetchedMetadata(store, curPath)
                                 ELSE Undefined
  /\ UNCHANGED <<curPath, searchResults, apiLog>>
  /\ UNCHANGED tokenVars
  /\ UNCHANGED fileSearchFrame
  /\ UNCHANGED programVars

\* ---------------------------------------------------------- createFileIndex
\* The index file is modelled by the array its text parses to; a missing
\* file, an empty file and the text [] all give the empty array, which is
\* what writeIndexFile starts from in each of these cases (lines 173-179).
sUntitled == <<"U", "n", "t", "i", "t", "l", "e", "d">>

RecOther == [filename |-> "c.html", title |-> sUntitled]

\* extractTitleAndBreadcrumbs: the entry of a file.
ExtractTitleAndBreadcrumbs(file) ==
  CASE file = "a.html" -> RecIntro
    [] file = "b.html" -> RecGuide
    [] OTHER -> RecOther

HtmlFileNames == {"a.html", "b.html", "c.html"}

\* File lists getHtmlFiles may give: each filename once.
FileLists ==
  {l \in UNION {[1..n -> HtmlFileNames] : n \in 0..MaxFiles} :
     \A i, j \in 1..Len(l) : l[i] = l[j] => i = j}

\* Index files an earlier run may have left.
OldIndexes == {<<>>, <<RecGuide>>, <<RecIntro, RecOther>>}

\* truncateFile: fs.truncate empties the file; its error is logged and
\* nothing is thrown.
TruncateFile(content, writable) == IF writable THEN <<>> ELSE content

\* writeIndexFile: the parsed array with the new entry is written back; an
\* error of fs.writeFile is logged and nothing is thrown.
WriteIndexFile(content, newEntry, writable) ==
  IF writable THEN Append(content, newEntry) ELSE content

\* Lines 87-105: createFileIndex is called and prepares the index file.
CreateFileIndexCall ==
  /\ icur = 0
  /\ icur' = 1
  /\ index' = TruncateFile(index, indexWritable)
  /\ UNCHANGED <<operation, configOK, indexWritable>>
  /\ UNCHANGED <<directory, gpc, htmlFiles>>
  /\ UNCHANGED <<healthVars, batchResult, bpc, crashCause>>
  /\ UNCHANGED tokenVars
  /\ UNCHANGED <<driver, fileList, store, run, cur, dataObject, curPath,
                 fileMetadata, newMetadata, editMetadataResponse, outcomeLog,
                 previousLog, apiLog>>
  /\ UNCHANGED searchVars

\* Lines 107-113: one pass of the loop, extractTitleAndBreadcrumbs and
\* writeIndexFile; after the last one createFileIndex returns.
IndexEntryWritten ==
  /\ icur \in 1..Len(fileList)
  /\ icur' = icur + 1
  /\ index' = WriteIndexFile(index,
       ExtractTitleAndBreadcrumbs(fileList[icur]), indexWritable)
  /\ UNCHANGED <<operation, configOK, indexWritable>>
  /\ UNCHANGED <<directory, gpc, htmlFiles>>
  /\ UNCHANGED <<healthVars, batchResult, bpc, crashCause>>
  /\ UNCHANGED tokenVars
  /\ UNCHANGED <<driver, fileList, store, run, cur, dataObject, curPath,
                 fileMetadata, newMetadata, editMetadataResponse, outcomeLog,
                 previousLog, apiLog>>
  /\ UNCHANGED searchVars

\* ------------------------------------------------------------ specifications
\* No health check, no getHtmlFiles call and no batch has run.
ProgramIdle ==
  /\ yamlOperation = ""
  /\ hpc = "idle"
  /\ results = [s \in Services |-> "none"]
  /\ healthError = <<>>
  /\ batchResult = Undefined
  /\ directory = <<>>
  /\ gpc = "idle"
  /\ htmlFiles = Undefined
  /\ operation = ""
  /\ configOK = "unset"
  /\ indexWritable = TRUE
  /\ icur = 0

BatchIdle ==
  /\ driver = "ops"
  /\ index = <<>>
  /\ fileList = <<>>
  /\ store = [p \in Paths |-> MetaNoPath]
  /\ run = 0
  /\ bpc = "main"
  /\ cur = 1
  /\ dataObject = Undefined
  /\ curPath = ""
  /\ fileMetadata = Undefined
  /\ newMetadata = Undefined
  /\ editMetadataResponse = Undefined
  /\ outcomeLog = <<>>
  /\ previousLog = <<>>
  /\ apiLog = <<>>
  /\ crashCause = ""
  /\ spc = "idle"
  /\ queryObject = Undefined
  /\ searchResults = Undefined
  /\ ProgramIdle

Init == TokenInit /\ lifetimes = {60, 120} /\ BatchIdle

Next ==
  \/ Tick
  \/ \E p \in Clients : ClientCall(p)
  \/ \E p \in Clients : RefreshGranted(p)
  \/ \E p \in Clients : RefreshRejected(p)
  \/ \E p \in Clients : PasswordGranted(p)
  \/ \E p \in Clients : PasswordRejected(p)

\* Overlapping callers of the exported getToken.
Spec == Init /\ [][Next]_vars

BatchInit ==
  /\ TokenInit
  /\ env \in {EnvVars, EnvVars \ {"CLIENT_SECRET"}}
  /\ lifetimes = {90}
  /\ driver \in {"ops", "index"}
  /\ index \in Indexes
  /\ fileList = [i \in 1..Len(index) |-> index[i].filename]
  /\ store \in Stores
  /\ run = 0
  /\ bpc = "main"
  /\ cur = 1
  /\ dataObject = Undefined
  /\ curPath = ""
  /\ fileMetadata = Undefined
  /\ newMetadata = Undefined
  /\ editMetadataResponse = Undefined
  /\ outcomeLog = <<>>
  /\ previousLog = <<>>
  /\ apiLog = <<>>
  /\ crashCause = ""
  /\ spc = "idle"
  /\ queryObject = Undefined
  /\ searchResults = Undefined
  /\ ProgramIdle

BatchNext ==
  \/ Tick
  \/ RefreshGranted(BatchCaller)
  \/ RefreshRejected(BatchCaller)
  \/ PasswordGranted(BatchCaller)
  \/ PasswordRejected(BatchCaller)
  \/ StartUpdate
  \/ BatchTokenReturned
  \/ BatchCompleted
  \/ ProcessFileStart
  \/ SearchSend
  \/ SearchFailed
  \/ SearchEmpty
  \/ \E d \in Paths : SearchHit(d)
  \/ MetadataSend
  \/ MetadataFailed
  \/ MetadataFetched
  \/ EditSend
  \/ \E status \in {200, Accepted} : EditResponded(status)
  \/ EditFailed

\* The update batch, driven from main.
BatchSpec == BatchInit /\ [][BatchNext]_vars

SearchInit == TokenInit /\ lifetimes = {90} /\ BatchIdle

SearchNext ==
  \/ Tick
  \/ RefreshGranted(BatchCaller)
  \/ RefreshRejected(BatchCaller)
  \/ PasswordGranted(BatchCaller)
  \/ PasswordRejected(BatchCaller)
  \/ \E q \in Queries : IndexSearchCall(q)
  \/ IndexSearchSend
  \/ \E a \in SearchAttributes, t \in SearchTerms : VfqSearchCall(a, t)
  \/ \E answer \in SearchAnswers : SearchAnswered(answer)
  \/ SearchRequestFailed

\* Direct callers of the exported search functions.
SearchSpec == SearchInit /\ [][SearchNext]_vars

HealthInit == TokenInit /\ lifetimes = {90} /\ BatchIdle

HealthNext ==
  \/ Tick
  \/ RefreshGranted(BatchCaller)
  \/ RefreshRejected(BatchCaller)
  \/ PasswordGranted(BatchCaller)
  \/ PasswordRejected(BatchCaller)
  \/ CheckApiStatusCall
  \/ ProbesSend
  \/ \E s \in Services, o \in Operational : ProbeAnswered(s, o)
  \/ \E s \in Services : ProbeFailed(s)
  \/ HealthEvaluate

\* Direct callers of the exported checkApiStatus.
HealthSpec == HealthInit /\ [][HealthNext]_vars

FilesInit ==
  /\ TokenInit
  /\ env = EnvVars
  /\ lifetimes = {90}
  /\ driver = "ops"
  /\ index = <<>>
  /\ fileList = <<>>
  /\ store = [p \in Paths |-> MetaNoPath]
  /\ run = 0
  /\ bpc = "main"
  /\ cur = 1
  /\ dataObject = Undefined
  /\ curPath = ""
  /\ fileMetadata = Undefined
  /\ newMetadata = Undefined
  /\ editMetadataResponse = Undefined
  /\ outcomeLog = <<>>
  /\ previousLog = <<>>
  /\ apiLog = <<>>
  /\ crashCause = ""
  /\ spc = "idle"
  /\ queryObject = Undefined
  /\ searchResults = Undefined
  /\ yamlOperation = ""
  /\ hpc = "idle"
  /\ results = [s \in Services |-> "none"]
  /\ healthError = <<>>
  /\ batchResult = Undefined
  /\ directory \in Directories
  /\ gpc = "idle"
  /\ htmlFiles = Undefined
  /\ operation = ""
  /\ configOK = "unset"
  /\ indexWritable = TRUE
  /\ icur = 0

FilesNext ==
  \/ GetHtmlFilesCall
  \/ ReaddirAnswered
  \/ ReaddirFailed

\* getHtmlFiles, applied to a directory.
FilesSpec == FilesInit /\ [][FilesNext]_vars

ProgramInit ==
  /\ TokenInit
  /\ env \in {EnvVars, EnvVars \ {"CLIENT_SECRET"}}
  /\ lifetimes = {90}
  /\ driver \in {"ops", "index"}
  /\ index \in Indexes
  /\ fileList = [i \in 1..Len(index) |-> index[i].filename]
  /\ store = StoreOf(MetaOld, MetaGuideKeywords)
  /\ run = 0
  /\ bpc = "startup"
  /\ cur = 1
  /\ dataObject = Undefined
  /\ curPath = ""
  /\ fileMetadata = Undefined
  /\ newMetadata = Undefined
  /\ editMetadataResponse = Undefined
  /\ outcomeLog = <<>>
  /\ previousLog = <<>>
  /\ apiLog = <<>>
  /\ crashCause = ""
  /\ spc = "idle"
  /\ queryObject = Undefined
  /\ searchResults = Undefined
  /\ yamlOperation \in {"", "update"}
  /\ hpc = "idle"
  /\ results = [s \in Services |-> "none"]
  /\ healthError = <<>>
  /\ batchResult = Undefined
  /\ directory = <<>>
  /\ gpc = "idle"
  /\ htmlFiles = Undefined
  /\ operation = ""
  /\ configOK = "unset"
  /\ indexWritable = TRUE
  /\ icur = 0

ProgramNext ==
  \/ ModuleInit
  \/ ProbesSend
  \/ \E s \in Services, o \in Operational : ProbeAnswered(s, o)
  \/ \E s \in Services : ProbeFailed(s)
  \/ HealthEvaluate
  \/ BatchNext

\* The program from the loading of its main module on.
ProgramSpec == ProgramInit /\ [][ProgramNext]_vars

MainInit ==
  /\ TokenInit
  /\ env = EnvVars
  /\ lifetimes = {90}
  /\ driver \in {"ops", "index"}
  /\ index \in Indexes
  /\ fileList = <<>>
  /\ store = StoreOf(MetaOld, MetaGuideKeywords)
  /\ run = 0
  /\ bpc = "main"
  /\ cur = 1
  /\ dataObject = Undefined
  /\ curPath = ""
  /\ fileMetadata = Undefined
  /\ newMetadata = Undefined
  /\ editMetadataResponse = Undefined
  /\ outcomeLog = <<>>
  /\ previousLog = <<>>
  /\ apiLog = <<>>
  /\ crashCause = ""
  /\ spc = "idle"
  /\ queryObject = Undefined
  /\ searchResults = Undefined
  /\ ProgramIdle

MainNext ==
  \/ Tick
  \/ RefreshGranted(BatchCaller)
  \/ RefreshRejected(BatchCaller)
  \/ PasswordGranted(BatchCaller)
  \/ PasswordRejected(BatchCaller)
  \/ \E op \in {"index", "update", "file_search"}, ok \in BOOLEAN,
        searchTerm \in {"a.html"} : SelectOperation(op, ok, searchTerm)
  \/ BatchTokenReturned
  \/ BatchCompleted
  \/ ProcessFileStart
  \/ SearchSend
  \/ SearchFailed
  \/ SearchEmpty
  \/ \E d \in Paths : SearchHit(d)
  \/ MetadataSend
  \/ MetadataFailed
  \/ MetadataFetched
  \/ EditSend
  \/ \E status \in {200, Accepted} : EditResponded(status)
  \/ EditFailed
  \/ FileSearchSend
  \/ \E answer \in SearchAnswers : FileSearchAnswered(answer)
  \/ FileSearchFailed
  \/ FileMetadataSend
  \/ \E answered \in BOOLEAN : FileMetadataReturned(answered)

\* main's loop of operations.
MainSpec == MainInit /\ [][MainNext]_vars

IndexInit ==
  /\ TokenInit
  /\ env = EnvVars
  /\ lifetimes = {90}
  /\ driver = "ops"
  /\ index \in OldIndexes
  /\ fileList \in FileLists
  /\ store = [p \in Paths |-> MetaNoPath]
  /\ run = 0
  /\ bpc = "main"
  /\ cur = 1
  /\ dataObject = Undefined
  /\ curPath = ""
  /\ fileMetadata = Undefined
  /\ newMetadata = Undefined
  /\ editMetadataResponse = Undefined
  /\ outcomeLog = <<>>
  /\ previousLog = <<>>
  /\ apiLog = <<>>
  /\ crashCause = ""
  /\ spc = "idle"
  /\ queryObject = Undefined
  /\ searchResults = Undefined
  /\ yamlOperation = ""
  /\ hpc = "idle"
  /\ results = [s \in Services |-> "none"]
  /\ healthError = <<>>
  /\ batchResult = Undefined
  /\ directory = <<>>
  /\ gpc = "idle"
  /\ htmlFiles = Undefined
  /\ operation = "index"
  /\ configOK = "yes"
  /\ indexWritable \in BOOLEAN
  /\ icur = 0

IndexNext ==
  \/ CreateFileIndexCall
  \/ IndexEntryWritten

\* createFileIndex, applied to a file list and an index file.
IndexSpec == IndexInit /\ [][IndexNext]_vars


\* ------------------------------------------------------------------ claims
\* A getToken call starts in this step / ends by throwing in this step.
CallStarts(p) == callCount'[p] # callCount[p]
CallThrows(p) ==
  pc'[p] = "thrown" /\ (pc[p] # "thrown" \/ CallStarts(p))
CallReturns(p) ==
  pc'[p] = "returned" /\ (pc[p] # "returned" \/ CallStarts(p))
RefreshFails(p) ==
  pc[p] = "awaitRefresh" /\ pc'[p] \notin {"awaitRefresh", "returned"}

\* C1: a getToken call made while an access token is cached and the clock
\* is before the cached expiry returns that cached token, sends no request
\* to the token endpoint and leaves the cache as it is.
CachedTokenServed ==
  [][\A p \in Callers :
       (/\ CallStarts(p)
        /\ tokenCache.accessToken # Null
        /\ now < tokenCache.accessTokenExpirationTime)
       => (/\ pc'[p] = "returned"
           /\ tokenResult'[p] = tokenCache.accessToken
           /\ tokenLog' = tokenLog
           /\ tokenCache' = tokenCache)]_vars

\* Two calls, time passing between them, one request, the same token.
CachedTokenServedWitness ==
  /\ tokenResult["c1"] = 1
  /\ tokenResult["c2"] = 1
  /\ pc["c1"] = "returned"
  /\ pc["c2"] = "returned"
  /\ Len(tokenLog) = 1
  /\ ticks > 0

\* C2: token acquisition is single-flight: no two getToken calls have a
\* request to the token endpoint in flight at the same time.
SingleFlight == Cardinality({p \in Callers : Awaiting(p)}) <= 1

FailureClearsCache ==
  [][\A p \in Callers :
       (CallThrows(p) \/ RefreshFails(p)) => tokenCache' = EmptyCache]_vars

\* A call has thrown after tokens had been cached.
FailureClearsCacheWitness ==
  /\ pc["c1"] = "thrown"
  /\ Len(issued) >= 1
  /\ env = EnvVars
  /\ tokenCache = EmptyCache

\* C5: the cache is either empty or holds the access token, the refresh
\* token and the two expiries of one and the same successful response.
CacheFromOneResponse ==
  \/ tokenCache = EmptyCache
  \/ \E i \in 1..Len(issued) :
       /\ tokenCache.accessToken = i
       /\ tokenCache.refreshToken = i
       /\ tokenCache.accessTokenExpirationTime =
            issued[i].start + (issued[i].expiresIn - 60) * 1000
       /\ tokenCache.refreshTokenExpirationTime =
            issued[i].start + 86400000

\* Two overlapping calls each sent a password grant and each stored its
\* response; the cache holds the later response, whole.
CacheFromOneResponseWitness ==
  /\ Len(tokenLog) = 2
  /\ tokenLog[1].grant = "password"
  /\ tokenLog[2].grant = "password"
  /\ pc["c1"] = "returned"
  /\ pc["c2"] = "returned"
  /\ tokenResult["c1"] # tokenResult["c2"]
  /\ tokenCache.accessToken = 2
  /\ tokenCache.refreshToken = 2

\* C6: getToken throws and returns no token whenever a required credential
\* is missing or the endpoint rejects the password grant.
GetTokenFails ==
  [][\A p \in Callers :
       /\ (CallStarts(p) /\ env # EnvVars)
            => (pc'[p] = "thrown" /\ tokenResult'[p] = Null)
       /\ (pc[p] = "awaitPassword" /\ pc'[p] # "awaitPassword"
             /\ issued' = issued)
            => (pc'[p] = "thrown" /\ tokenResult'[p] = Null)]_vars

\* The endpoint rejected a password grant sent with all credentials.
GetTokenFailsWitness ==
  /\ env = EnvVars
  /\ pc["c1"] = "thrown"
  /\ tokenResult["c1"] = Null
  /\ tokenLog # <<>>

\* C7: editFileMetadata called with metadata that has no FilePath, or an
\* empty one, throws before it asks for a token or posts anything; so
\* every edit request sent carries a non-empty FilePath.
NoFilePath(meta) ==
  "FilePath" \notin DOMAIN meta \/ meta.FilePath = ""

EditNeedsFilePath ==
  /\ [](\A i \in 1..Len(apiLog) :
          apiLog[i].op = "edit" => ~NoFilePath(apiLog[i].body))
  /\ [][(newMetadata' # newMetadata /\ newMetadata' # Undefined
           /\ NoFilePath(newMetadata'))
          => (/\ bpc' = "crashed"
              /\ apiLog' = apiLog
              /\ tokenLog' = tokenLog
              /\ callCount' = callCount)]_vars

\* editFileMetadata has thrown on metadata without FilePath.
EditNeedsFilePathWitness ==
  /\ bpc = "crashed"
  /\ newMetadata # Undefined
  /\ NoFilePath(newMetadata)
  /\ \A i \in 1..Len(apiLog) : apiLog[i].op # "edit"

\* C8: a failed search, metadata fetch or update of one record does not
\* abort the batch: no such failure ends the run before every filename of
\* the list has been processed.
RecordFailureDoesNotAbort ==
  (bpc = "crashed"
     /\ crashCause \in {"search_failed", "metadata_failed"})
    => Len(outcomeLog) = Len(fileList)

\* C9: a search that returns zero records ends the record as skipped: no
\* metadata fetch, no write, and no error.
EmptySearchSkips ==
  (fileMetadata = NullValue /\ apiLog # <<>>
     /\ apiLog[Len(apiLog)].op = "search"
     /\ crashCause # "search_failed")
    => bpc # "crashed"

\* C10: when the fetched title equals the record's title ignoring case and
\* the fetched keywords equal the desired keywords ignoring case, or there
\* are neither fetched nor desired keywords, processFile logs the record as
\* skipped and returns without a token request or a write; the store stays
\* as it is, so the same holds when the batch runs again.
TitleSame(meta, rec) ==
  /\ "Title" \in DOMAIN meta
  /\ ToLowerCase(meta.Title) = ToLowerCase(rec.title)

KeywordsSame(meta, rec) ==
  \/ /\ "Keywords_txt" \in DOMAIN meta
     /\ ToLowerCase(meta.Keywords_txt) = ToLowerCase(NewKeywords(rec))
  \/ /\ ~HasText(meta, "Keywords_txt")
     /\ NewKeywords(rec) = <<>>

ScenarioAlreadyCorrect ==
  [][(/\ bpc = "metadata_wait"
      /\ bpc' # "metadata_wait"
      /\ crashCause' # "metadata_failed"
      /\ dataObject = RecIntro
      /\ store[curPath] = MetaHomeIntro)
     => (/\ outcomeLog' = Append(outcomeLog,
              [file |-> dataObject.filename, result |-> "skipped"])
         /\ store' = store)]_vars

\* C12: every edit request sent for the record {a.html, "Intro",
\* breadcrumbs Home, Intro} carries Title "Intro" and Keywords_txt
\* "Home; Intro".
WrittenValuesExact ==
  \A i \in 1..Len(apiLog) :
    (apiLog[i].op = "edit" /\ apiLog[i].file = RecIntro.filename)
      => (/\ apiLog[i].body.Title = sIntro
          /\ apiLog[i].body.Keywords_txt = sHomeIntro)

\* C13: when the record's desired keywords are empty, the metadata in an
\* edit request has Keywords_txt exactly as the fetched metadata has it:
\* the same value if it was there, absent if it was absent.
KeywordsKept ==
  \A i \in 1..Len(apiLog) :
    (apiLog[i].op = "edit" /\ NewKeywords(dataObject) = <<>>)
      => (/\ ("Keywords_txt" \in DOMAIN apiLog[i].body)
                <=> ("Keywords_txt" \in DOMAIN fileMetadata)
          /\ "Keywords_txt" \in DOMAIN fileMetadata
                => apiLog[i].body.Keywords_txt = fileMetadata.Keywords_txt)

\* A record without breadcrumbs was written over a document that has
\* keywords, and the request carries those keywords.
KeywordsKeptWitness ==
  /\ bpc = "edit_wait"
  /\ "breadcrumbs" \notin DOMAIN dataObject
  /\ "Keywords_txt" \in DOMAIN fileMetadata
  /\ fileMetadata.Keywords_txt # <<>>
  /\ apiLog[Len(apiLog)].op = "edit"
  /\ apiLog[Len(apiLog)].body.Keywords_txt = fileMetadata.Keywords_txt

\* C14: the metadata in an edit request has, apart from Title and
\* Keywords_txt, exactly the keys of the fetched metadata, each with the
\* fetched value.
OtherKeys(meta) == DOMAIN meta \ {"Title", "Keywords_txt"}

OtherKeysKept ==
  \A i \in 1..Len(apiLog) :
    apiLog[i].op = "edit"
      => (/\ OtherKeys(apiLog[i].body) = OtherKeys(fileMetadata)
          /\ \A k \in OtherKeys(fileMetadata) :
               apiLog[i].body[k] = fileMetadata[k])

\* An edit request carries a key other than FilePath, Title and
\* Keywords_txt, taken over from the fetched metadata.
OtherKeysKeptWitness ==
  /\ bpc = "edit_wait"
  /\ apiLog[Len(apiLog)].op = "edit"
  /\ "Author" \in DOMAIN fileMetadata
  /\ "Author" \in DOMAIN apiLog[Len(apiLog)].body
  /\ "FilePath" \in DOMAIN apiLog[Len(apiLog)].body

\* C15: when editFileMetadata has returned, the record is logged as updated
\* exactly when it returned status 202, as failed otherwise (another status
\* or a failed request), and the loop goes on to the next filename.
EditOutcomeByStatus ==
  [][(bpc = "edit_wait" /\ bpc' # "edit_wait")
     => (/\ bpc' = "loop"
         /\ cur' = cur + 1
         /\ crashCause' = crashCause
         /\ outcomeLog' = Append(outcomeLog,
              [file |-> dataObject.filename,
               result |-> IF editMetadataResponse' = StatusCode(202)
                            THEN "updated" ELSE "failed"]))]_vars

\* The first record's write failed, the batch went on, and the second
\* record was updated on status 202.
EditOutcomeWitness ==
  /\ Len(outcomeLog) = 2
  /\ outcomeLog[1].result = "failed"
  /\ outcomeLog[2].result = "updated"
  /\ editMetadataResponse = StatusCode(Accepted)

\* C16: records are processed one after the other in list order: every
\* request sent belongs to the record that follows the finished ones in
\* the list, and the records finish in the order of the list.
Sequential ==
  /\ Len(outcomeLog) <= Len(fileList)
  /\ \A i \in 1..Len(outcomeLog) : outcomeLog[i].file = fileList[i]
  /\ \A i \in 1..Len(apiLog) :
       /\ Len(outcomeLog) < Len(fileList)
       /\ apiLog[i].file = fileList[Len(outcomeLog) + 1]

\* The first record has finished and a request for the second is out.
SequentialWitness ==
  /\ Len(outcomeLog) = 1
  /\ outcomeLog[1].file = fileList[1]
  /\ bpc = "search_wait"
  /\ apiLog # <<>>
  /\ apiLog[1].file = fileList[2]

\* C17: within one run a record causes at most one search, one metadata
\* fetch and one edit request and is finished at most once, also when a
\* step failed; the one edit request carries the record's title together
\* with its keywords.
RequestsOf(op) == {i \in 1..Len(apiLog) : apiLog[i].op = op}

AtMostOnce ==
  /\ \A op \in {"search", "metadata", "edit"} :
       Cardinality(RequestsOf(op)) <= 1
  /\ \A i, j \in 1..Len(outcomeLog) :
       outcomeLog[i].file = outcomeLog[j].file => i = j
  /\ \A i \in RequestsOf("edit") :
       /\ apiLog[i].body.Title = dataObject.title
       /\ NewKeywords(dataObject) # <<>>
            => (/\ "Keywords_txt" \in DOMAIN apiLog[i].body
                /\ apiLog[i].body.Keywords_txt = NewKeywords(dataObject))

\* A run has ended in which the write of a record failed, and a write
\* with title and keywords is out in the next run.
AtMostOnceWitness ==
  /\ \E i \in 1..Len(previousLog) : previousLog[i].result = "failed"
  /\ Len(previousLog) = Len(fileList)
  /\ RequestsOf("edit") # {}
  /\ NewKeywords(dataObject) # <<>>

TransportFailureReported ==
  crashCause \in {"search_failed", "metadata_failed"}
    => fileMetadata \notin {NullValue, Undefined}

\* C20: no search request with an exact-value query against the attribute
\* FileName is ever sent.
ExactValueQuery(q) == "value" \in DOMAIN q

NoExactFileNameSearch ==
  \A i \in 1..Len(apiLog) :
    apiLog[i].op = "search"
      => ~(/\ ExactValueQuery(apiLog[i].body.query)
           /\ apiLog[i].body.query.attribute = "FileName")

\* C21: when checkApiStatus fails because services are down, its error
\* names every service whose probe did not report operational true.
DownServices ==
  {ServiceName(s) : s \in {t \in Services : results[t] # "true"}}

HealthErrorListsAll ==
  hpc = "failed"
    => {healthError[i] : i \in 1..Len(healthError)} = DownServices

\* C22: every search request the batch sends for a record is an exact-value
\* query whose value is the data source joined with the record's filename,
\* never a natural language query.
RootJoined(file) == <<"DATA_SOURCE", "/", file>>

SearchIsExactMatch ==
  \A i \in 1..Len(apiLog) :
    apiLog[i].op = "search"
      => (/\ ExactValueQuery(apiLog[i].body.query)
          /\ "nlq" \notin DOMAIN apiLog[i].body.query
          /\ apiLog[i].body.query.value = RootJoined(apiLog[i].file))

\* C23: when updateCloudMetadata has returned, what it returned has the
\* counts updated, skipped and failed, each the number of records logged
\* with that outcome, and the three sum to the number of records.
CountOf(result) ==
  Cardinality({i \in 1..Len(outcomeLog) : outcomeLog[i].result = result})

BatchReturnsCounts ==
  (bpc = "main" /\ run > 0)
    => (/\ DOMAIN batchResult = {"updated", "skipped", "failed"}
        /\ batchResult.updated = CountOf("updated")
        /\ batchResult.skipped = CountOf("skipped")
        /\ batchResult.failed = CountOf("failed")
        /\ batchResult.updated + batchResult.skipped + batchResult.failed
             = Len(fileList))

\* C24: every edit request follows, among the requests of the same record
\* and run, a metadata request for the document it writes, and carries what
\* that request fetched, with the record's title and keywords set; between
\* two records no fetched metadata is kept.
WriteFollowsFetch ==
  /\ \A i \in RequestsOf("edit") :
       \E j \in 1..(i - 1) :
         /\ apiLog[j].op = "metadata"
         /\ apiLog[j].file = apiLog[i].file
         /\ apiLog[j].run = apiLog[i].run
         /\ apiLog[j].body = apiLog[i].body.FilePath
         /\ fileMetadata = store[apiLog[j].body]
         /\ \A k \in DOMAIN fileMetadata \ {"Title", "Keywords_txt"} :
              apiLog[i].body[k] = fileMetadata[k]
  /\ \A i \in 1..Len(apiLog) : apiLog[i].file = dataObject.filename
  /\ bpc \in {"loop", "main"} => fileMetadata = Undefined

\* The first record was written, and the write of the second is out, after
\* a fetch of the second document.
WriteFollowsFetchWitness ==
  /\ bpc = "edit_wait"
  /\ Len(outcomeLog) = 1
  /\ outcomeLog[1].result = "updated"
  /\ apiLog[Len(apiLog)].op = "edit"
  /\ apiLog[Len(apiLog)].body.FilePath = "/b.html"
  /\ \E j \in RequestsOf("metadata") : apiLog[j].body = "/b.html"

\* C25: getHtmlFiles returns the .html and .htm filenames of the directory,
\* in the directory's order, whenever the directory can be read: an empty
\* array when there is none.
HtmlFilesReturned ==
  gpc \in {"returned", "thrown_empty"}
    => (/\ gpc = "returned"
        /\ htmlFiles = SelectSeq(directory, IsHtmlFile))

\* C26: the cached expiry of an access token is the start of its request
\* plus (expires_in - 60) seconds; a call that returns the cached token
\* does so more than 60 seconds before the token's lifetime, counted from
\* the start of its request, is over; a token with expires_in 60 or less
\* is never returned from the cache.
ExpiryHasMargin ==
  /\ [](tokenCache.accessToken # Null
          => tokenCache.accessTokenExpirationTime =
               issued[tokenCache.accessToken].start
                 + (issued[tokenCache.accessToken].expiresIn - 60) * 1000)
  /\ [][\A p \in Callers :
          (CallStarts(p) /\ pc'[p] = "returned")
            => (/\ now + 60000 <
                     issued[tokenResult'[p]].start
                       + issued[tokenResult'[p]].expiresIn * 1000
                /\ issued[tokenResult'[p]].expiresIn > 60)]_vars

\* A token with expires_in 60 was cached, and the next call, made at once,
\* did not return it but sent a refresh grant.
ExpiryHasMarginWitness ==
  /\ ticks = 0
  /\ Len(issued) = 2
  /\ issued[1].expiresIn = 60
  /\ Len(tokenLog) = 2
  /\ tokenLog[2].grant = "refresh_token"
  /\ tokenResult["c1"] # tokenResult["c2"]

\* C27: a refresh grant is sent only by a call that starts while no valid
\* access token and an unexpired refresh token are cached; a password grant
\* is sent only while no valid access token is cached, by a call that
\* starts while no unexpired refresh token is cached or by a call whose
\* refresh grant has just failed.
AccessCached(cache) ==
  cache.accessToken # Null /\ now < cache.accessTokenExpirationTime

RefreshCached(cache) ==
  cache.refreshToken # Null /\ now < cache.refreshTokenExpirationTime

Sends(p, grant) ==
  /\ Len(tokenLog') = Len(tokenLog) + 1
  /\ tokenLog'[Len(tokenLog')].caller = p
  /\ tokenLog'[Len(tokenLog')].grant = grant

GrantOrder ==
  [][\A p \in Callers :
       /\ Sends(p, "refresh_token")
            => (/\ CallStarts(p)
                /\ ~AccessCached(tokenCache)
                /\ RefreshCached(tokenCache))
       /\ Sends(p, "password")
            => (/\ ~AccessCached(tokenCache')
                /\ \/ CallStarts(p) /\ ~RefreshCached(tokenCache)
                   \/ RefreshFails(p))]_vars

\* A password grant, then a call that sent a refresh grant and, when that
\* failed, a password grant.
GrantOrderWitness ==
  /\ Len(tokenLog) = 3
  /\ tokenLog[1].grant = "password"
  /\ tokenLog[2].grant = "refresh_token"
  /\ tokenLog[3].grant = "password"
  /\ tokenLog[2].caller = tokenLog[3].caller
  /\ tokenLog[1].caller # tokenLog[2].caller

\* C28: checkApiStatus sends its three probes together and evaluates when
\* all three have ended; it returns exactly when all three reported
\* operational true, and throws when one reported false or its request
\* failed.
HealthAllOrNothing ==
  /\ (\E s \in Services : results[s] # "none")
       => \A s \in Services : results[s] # "none"
  /\ hpc \in {"passed", "failed"}
       => \A s \in Services : results[s] \in {"true", "false", "undefined"}
  /\ hpc = "passed" => \A s \in Services : results[s] = "true"
  /\ hpc = "failed" => \E s \in Services : results[s] # "true"

\* Two services reported operational true, the request to the third
\* failed, and checkApiStatus threw.
HealthAllOrNothingWitness ==
  /\ hpc = "failed"
  /\ results["ingest"] = "true"
  /\ results["ias"] = "true"
  /\ results["store"] = "undefined"

\* C29: an edit request is sent only after a checkApiStatus of this program
\* run has returned, and no batch starts after one has thrown.
WriteNeedsHealthCheck ==
  /\ (\E i \in 1..Len(apiLog) : apiLog[i].op = "edit") => hpc = "passed"
  /\ hpc \in {"failed", "token_failed"} => run = 0

\* C30: the metadata of every edit request is such that, fetched again for
\* the same record, processFile returns without writing.
Converges ==
  bpc = "edit_wait" => AlreadyCorrect(newMetadata, dataObject)

\* C31: every edit request sent for a record carries the FilePath of the
\* remote document that has the record's filename, whatever document the
\* search gave as its first hit.
DocumentOf(file) == IF file = "a.html" THEN "/a.html" ELSE "/b.html"

WritesOwnDocument ==
  \A i \in 1..Len(apiLog) :
    apiLog[i].op = "edit"
      => apiLog[i].body.FilePath = DocumentOf(apiLog[i].file)

\* C32: a request of the batch is sent only as the next step after a
\* getToken call made for it has returned, and carries the token that call
\* returned: one the call was issued itself, or a cached one whose cached
\* expiry was still ahead when the call was made.
TokenSteps == {"search_token", "metadata_token", "edit_token"}

FreshTokenPerRequest ==
  [][/\ (bpc' \in TokenSteps /\ bpc' # bpc) => CallStarts(BatchCaller)
     /\ Len(apiLog') > Len(apiLog)
          => (/\ bpc \in TokenSteps
              /\ pc[BatchCaller] = "returned"
              /\ apiLog'[Len(apiLog')].token = tokenResult[BatchCaller]
              /\ \/ issued[tokenResult[BatchCaller]].start
                      = currentTime[BatchCaller]
                 \/ currentTime[BatchCaller] <
                      issued[tokenResult[BatchCaller]].start
                        + (issued[tokenResult[BatchCaller]].expiresIn - 60)
                            * 1000)]_vars

\* Within one record the cached token expired after the search request,
\* and the metadata request carries another token.
FreshTokenWitness ==
  /\ ticks > 0
  /\ Len(apiLog) = 2
  /\ apiLog[1].op = "search"
  /\ apiLog[2].op = "metadata"
  /\ apiLog[1].token # apiLog[2].token

\* C33: processFile always receives the index entry of the filename the
\* loop is at, and no error ends the batch for want of a record.
ProcessFileGetsRecord ==
  /\ crashCause # "no_record"
  /\ bpc \in {"search_token", "search_wait", "metadata_token",
               "metadata_wait", "edit_token", "edit_wait"}
       => dataObject = FindEntry(index, fileList[cur])

\* C34: when a getToken call fails while the cache holds the token that
\* another call, whose request was sent later, has obtained and returned,
\* the cache is left as it is.
LastRequest(p) ==
  IF \E i \in 1..Len(tokenLog) : tokenLog[i].caller = p
    THEN CHOOSE i \in 1..Len(tokenLog) :
           /\ tokenLog[i].caller = p
           /\ \A j \in (i + 1)..Len(tokenLog) : tokenLog[j].caller # p
    ELSE 0

FailureKeepsOthersToken ==
  [][\A p \in Clients, q \in Clients :
       (/\ p # q
        /\ Awaiting(p)
        /\ CallThrows(p)
        /\ pc[q] = "returned"
        /\ tokenResult[q] # Null
        /\ tokenCache.accessToken = tokenResult[q]
        /\ LastRequest(q) > LastRequest(p))
       => tokenCache' = tokenCache]_vars

\* C35: after the user has declined the directory confirmation, the file
\* list of the operation is empty and the operation sends no search, no
\* metadata and no edit request.
DeclinedSendsNothing ==
  configOK = "no"
    => (/\ fileList = <<>>
        /\ apiLog = <<>>
        /\ bpc \in {"main", "batch_token", "loop", "crashed"})

\* An update wrote or skipped records; the next update, its confirmation
\* declined, has run to its end without a request.
DeclinedWitness ==
  /\ configOK = "no"
  /\ operation = "update"
  /\ run = 2
  /\ previousLog # <<>>
  /\ outcomeLog = <<>>
  /\ batchResult = NullValue
  /\ bpc = "main"

\* C36: an edit request is out, or about to be sent, only while the
\* selected operation is update, and no step of another operation changes
\* the store.
WriteOnlyInUpdate ==
  /\ []((\/ bpc \in {"edit_token", "edit_wait"}
         \/ \E i \in 1..Len(apiLog) : apiLog[i].op = "edit")
          => operation = "update")
  /\ [][operation' # "update" => store' = store]_vars

\* After an update that wrote a record, a file search is fetching
\* metadata.
WriteOnlyInUpdateWitness ==
  /\ operation = "file_search"
  /\ bpc = "fs_metadata_wait"
  /\ \E i \in 1..Len(outcomeLog) : outcomeLog[i].result = "updated"
  /\ apiLog[Len(apiLog)].op = "metadata"

\* C37: when createFileIndex has returned, the index file holds the entry
\* of each file of the list, in the order of the list, and nothing else.
IndexMatchesFileList ==
  (icur = Len(fileList) + 1)
    => index = [i \in 1..Len(fileList) |->
                  ExtractTitleAndBreadcrumbs(fileList[i])]

====
